---- MODULE Spec2Model ----
(***************************************************************************)
(* A model of the load tester of pawcoding/load-profile-generator:         *)
(*   - loadTest          (src/puppeteer/load-test.ts): deadline, entry     *)
(*                        weights, the queue loop, the task callback and   *)
(*                        the taskerror handler;                           *)
(*   - class User        (src/puppeteer/user.ts): one simulated visitor;   *)
(*   - mulberry32, randomBoxMuller, sleep (src/utils).                     *)
(*                                                                         *)
(* JavaScript runs one continuation at a time.  Every action below is one  *)
(* continuation: from the point a coroutine is resumed to its next await   *)
(* on a timer or on the browser.  The wall clock advances on its own.      *)
(*                                                                         *)
(* Time is counted in ticks of TickMs milliseconds.  The random streams    *)
(* keep the structure of mulberry32 at a width of RngBits bits instead of  *)
(* 32, so a draw is one of RngMod levels t / RngMod of [0,1).              *)
(***************************************************************************)
EXTENDS Integers, Sequences, FiniteSets, TLC

(***************************************************************************)
(* Bounds of the model.                                                    *)
(***************************************************************************)
\* the largest number of users (-u) a run is started with
MaxUsers == 3
\* the largest concurrency (-c) a run is started with
MaxConcurrency == 2
\* the largest seed (-s) a run is started with
MaxSeed == 2
\* the duration (-d) of a run, in ticks
Duration == 2

\* the clock saturates one tick after the deadline: MaxTime stands for
\* every later time as well
MaxTime == Duration + 1

Max(x, y) == IF x >= y THEN x ELSE y
Min(x, y) == IF x <= y THEN x ELSE y

(***************************************************************************)
(* Numbers.  NaN is what Number(undefined) yields (a missing CSV cell);    *)
(* every comparison with NaN is false and every sum with NaN is NaN.       *)
(***************************************************************************)
NaN == -999999
isNaN(x) == x = NaN
Add(x, y) == IF isNaN(x) \/ isNaN(y) THEN NaN ELSE x + y
Mul(x, y) == IF isNaN(x) \/ isNaN(y) THEN NaN ELSE x * y
\* a comparison that takes 0 for negative as well
NonPositive(x) == ~isNaN(x) /\ x <= 0

\* x < 0, for a number x
Negative(x) == ~isNaN(x) /\ x < 0
\* x || 0 : NaN and 0 are falsy
OrZero(x) == IF isNaN(x) THEN 0 ELSE x

(***************************************************************************)
(* mulberry32 (src/utils/seed-random.ts), at RngBits bits.                 *)
(***************************************************************************)
RngBits == 4
RngMod == 2 ^ RngBits
Levels == 0 .. (RngMod - 1)

RECURSIVE BitOp(_, _, _, _)
BitOp(op, x, y, n) ==
  IF n = 0 THEN 0
  ELSE LET bx == x % 2
           by == y % 2
           b  == IF op = "xor" THEN (bx + by) % 2
                 ELSE IF bx + by > 0 THEN 1 ELSE 0
       IN  b + 2 * BitOp(op, x \div 2, y \div 2, n - 1)

Xor(x, y) == BitOp("xor", x, y, RngBits)
Or(x, y) == BitOp("or", x, y, RngBits)
\* Math.imul: the low bits of the product
imul(x, y) == (x * y) % RngMod
\* x >>> n
Shr(x, n) == x \div (2 ^ n)

\* a |= 0;  a = (a + 0x6d2b79f5) | 0      (0x6d2b79f5 mod 16 = 5)
RngAdvance(a) == ((a % RngMod) + 5) % RngMod

\* the value returned for the advanced state a, as a level t: the draw is
\* t / RngMod.  The shifts 15, 7, 14 of 32 bits become 2, 1, 2 of 4 bits
\* and 61 becomes 61 mod 16 = 13.
\* let t = Math.imul(a ^ (a >>> 15), 1 | a)
Scramble1(a) == imul(Xor(a, Shr(a, 2)), Or(1, a))
\* t = (t + Math.imul(t ^ (t >>> 7), 61 | t)) ^ t
Scramble2(t) == Xor((t + imul(Xor(t, Shr(t, 1)), Or(13, t))) % RngMod, t)
\* (t ^ (t >>> 14)) >>> 0
Scramble3(t) == Xor(t, Shr(t, 2))
RngOutput(a) == Scramble3(Scramble2(Scramble1(a)))
RngTable == [a \in Levels |-> RngOutput(a)]

\* one call of the closure returned by mulberry32: the new state and the level
mulberry32(a) ==
  [a |-> RngAdvance(a), t |-> RngTable[RngAdvance(a)]]

(***************************************************************************)
(* randomBoxMuller (src/utils/random-box-muller.ts) in fixed point.        *)
(* SqrtLn[t] = 1000 * sqrt(-2 ln (t/16)),  Cos2Pi[t] = 1000 * cos(2 pi     *)
(* t/16), for the non-zero levels t.                                       *)
(***************************************************************************)
SqrtLn == << 2355, 2039, 1830, 1665, 1525, 1401, 1286, 1177,
             1073, 970, 866, 759, 644, 517, 359 >>
Cos2Pi == << 924, 707, 383, 0, -383, -707, -924, -1000,
             -924, -707, -383, 0, 383, 707, 924 >>

\* while (u === 0) u = random();  the stream after the first non-zero draw
RECURSIVE DrawNonZero(_, _)
DrawNonZero(a, fuel) ==
  LET r == mulberry32(a)
  IN  IF r.t # 0 \/ fuel = 0 THEN r ELSE DrawNonZero(r.a, fuel - 1)

\* the result in milliseconds (mean and stdDev are in seconds) and the
\* state of the stream afterwards
randomBoxMuller(mean, a) ==
  LET u == DrawNonZero(a, RngMod)
      v == DrawNonZero(u.a, RngMod)
      ms == IF isNaN(mean) THEN NaN
            ELSE mean * 1000 + ((mean * SqrtLn[u.t] * Cos2Pi[v.t]) \div 2000)
  IN  [a |-> v.a, ms |-> ms]

\* Math.max(5, x) * 1000, in milliseconds: Math.max returns NaN for NaN
MaxFive(ms) == IF isNaN(ms) THEN NaN ELSE Max(5000, ms)

(***************************************************************************)
(* sleep (src/utils/sleep.ts): setTimeout(resolve, ms).  The timer fires   *)
(* no earlier than the tick it is due in; a NaN delay is a delay of 0.     *)
(***************************************************************************)
TickMs == 5000
WakeTime(t, ms) == Min(MaxTime, t + (OrZero(ms) \div TickMs))

(***************************************************************************)
(* The behavioural model (src/types/page.ts, page-transition.ts) as        *)
(* readPageCSV and readTransitionsCSV build it: pages[k] has id k - 1.     *)
(* interactionRate is kept as the percentage of the CSV cell.              *)
(***************************************************************************)
FollowingPage(id, label, navigations) ==
  [id |-> id, label |-> label, navigations |-> navigations]

Page(id, label, avgTimeOnPage, entries, exits, loops, otherNavigations, followingPages, interactionRate) ==
  [id |-> id, label |-> label, avgTimeOnPage |-> avgTimeOnPage,
   hasTransition |-> TRUE,
   entries |-> entries, exits |-> exits, loops |-> loops,
   otherNavigations |-> otherNavigations,
   followingPages |-> followingPages,
   interactionRate |-> interactionRate]

\* a site of three pages: a start page, a page with a video and a page
\* with podcast episodes
SitePages ==
  << Page(0, "/", 5, 1, 1, 1, 1,
          << FollowingPage(1, "/videos", 1), FollowingPage(2, "/podcasts", 1) >>,
          0),
     Page(1, "/videos", 5, 1, 1, 0, 1,
          << FollowingPage(0, "/", 1) >>, 50),
     Page(2, "/podcasts", 5, 2, 1, 1, 0, << >>, 50) >>

\* the row a trailing line break of pages.csv yields: Number("") is 0 and
\* Number(undefined) is NaN
BlankRow == Page(0, "", NaN, NaN, NaN, NaN, NaN, << >>, NaN)

\* a page nobody entered the site on
NoEntryPage == Page(0, "/", 5, 0, 1, 0, 0, << >>, 0)

Models == { SitePages, << >>, << BlankRow >>, << NoEntryPage, BlankRow >> }

(***************************************************************************)
(* The page-control stub: what the browser answers.  It is fixed for a     *)
(* run.  The links and audio elements of the rendered pages are those of   *)
(* one site; at most one operation of the stub fails, always with the same *)
(* error.                                                                  *)
(***************************************************************************)
Link(internal, label) == [internal |-> internal, label |-> label]

\* the <a> elements of the page with the given label, in document order
LinksOn(label) ==
  CASE label = "/"         -> << Link(TRUE, "/"), Link(TRUE, "/podcasts"),
                                 Link(FALSE, "/videos"), Link(TRUE, "/about") >>
    [] label = "/videos"   -> << Link(TRUE, "/"), Link(TRUE, "/podcasts") >>
    [] OTHER               -> << Link(TRUE, "/") >>

\* the number of <audio> elements of the page
AudioOn(label) == IF label = "/podcasts" THEN 2 ELSE 0

\* this._page.url.includes(...): the labels of the site that include the
\* word are  /word  and  /word/new
UrlIncludes(label, word) == label \in { "/" \o word, "/" \o word \o "/new" }

MsgTimeoutHit == << "T", "i", "m", "e", "o", "u", "t", " ", "h", "i", "t" >>
MsgNavigation ==
  << "N", "a", "v", "i", "g", "a", "t", "i", "o", "n", " ",
     "t", "i", "m", "e", "o", "u", "t" >>
MsgNet == << "n", "e", "t", ":", ":", "E", "R", "R" >>
Messages == { MsgTimeoutHit, MsgNavigation, MsgNet }

\* String.prototype.startsWith
startsWith(s, prefix) ==
  Len(s) >= Len(prefix) /\ SubSeq(s, 1, Len(prefix)) = prefix

Timeout == << "T", "i", "m", "e", "o", "u", "t" >>

NoFailure == [op |-> "none", msg |-> MsgNet]
Failure(op, msg) == [op |-> op, msg |-> msg]
Stubs ==
  { NoFailure,
    Failure("close", MsgNet), Failure("close", MsgTimeoutHit),
    Failure("setRequestInterception", MsgNet),
    Failure("goto", MsgNavigation),
    Failure("playVideo", MsgNet),
    Failure("findAudio", MsgNet),
    Failure("playAudio", MsgNet),
    Failure("reload", MsgNet),
    Failure("click", MsgNet),
    Failure("findLinks", MsgNet) }

(***************************************************************************)
(* The state of a run.                                                     *)
(***************************************************************************)
VARIABLES
  pages,          \* the model read by readPageCSV / readTransitionsCSV
  concurrency,    \* -c
  users,          \* -u
  seed,           \* -s
  stub,           \* the page-control stub of the run
  now,            \* Date.now(), in ticks since the start of loadTest
  opc,            \* where loadTest stands
  i,              \* the index of the queue loop
  finishedUsers,
  skippedUsers,
  randomNumber,   \* the state of the entry stream mulberry32(seed)
  lastPageEntryWeightIndex,
  jobQueue,       \* the pool: the users queued and not yet picked up
  user            \* the User objects, by id

config == << pages, concurrency, users, seed, stub >>
main == << opc, i, randomNumber, lastPageEntryWeightIndex >>
counters == << finishedUsers, skippedUsers >>
vars == << pages, concurrency, users, seed, stub, now, opc, i, finishedUsers,
           skippedUsers, randomNumber, lastPageEntryWeightIndex, jobQueue, user >>

Ids == 1 .. MaxUsers

\* const projectedEndTime = Date.now() + duration * 60 * 1000, loadTest
\* starting at time 0
projectedEndTime == 0 + Duration

\* a deadline check that is late by one tick
DeadlinePassedLate(t) == t > projectedEndTime + 1

\* Date.now() > projectedEndTime
DeadlinePassed(t) == t > projectedEndTime

(***************************************************************************)
(* loadTest: the entry weights.                                            *)
(***************************************************************************)
\* page.transition?.entries ?? 0
EntriesOf(page) == IF page.hasTransition THEN page.entries ELSE 0

\* pages.reduce(...): the running sums of the first n pages
RECURSIVE WeightsOf(_, _)
WeightsOf(ps, n) ==
  IF n = 0 THEN << >>
  ELSE LET weights == WeightsOf(ps, n - 1)
           last == IF n = 1 THEN 0 ELSE OrZero(weights[n - 1])
       IN  Append(weights, Add(last, EntriesOf(ps[n])))

pageEntryWeights == WeightsOf(pages, Len(pages))

\* weights[index] for a JavaScript index: undefined (here NaN, which isNaN
\* takes it for) outside the array
At(weights, index) ==
  IF index >= 0 /\ index < Len(weights) THEN weights[index + 1] ELSE NaN

\* a comparison that takes a weight equal to random as well
WeightReaches(weight, t, total) ==
  ~isNaN(weight) /\ ~isNaN(total) /\ weight * RngMod >= t * total

\* weight > random, where random = draw * total and the draw is t / RngMod
WeightExceeds(weight, t, total) ==
  ~isNaN(weight) /\ ~isNaN(total) /\ weight * RngMod > t * total

\* pageEntryWeights.findIndex((weight) => weight > random), from index k on
RECURSIVE findIndex(_, _, _, _)
findIndex(weights, t, total, k) ==
  IF k >= Len(weights) THEN -1
  ELSE IF WeightExceeds(weights[k + 1], t, total) THEN k
  ELSE findIndex(weights, t, total, k + 1)

\* the start page drawn with the entry stream in state a: the state
\* afterwards and the index found
SelectStartingPage(a) ==
  LET r == mulberry32(a)
      total == At(pageEntryWeights, lastPageEntryWeightIndex)
  IN  [a |-> r.a, pageIndex |-> findIndex(pageEntryWeights, r.t, total, 0)]

(***************************************************************************)
(* class User: the constructor.                                            *)
(***************************************************************************)
NoTrace == << >>
NoUser ==
  [pc |-> "none", page |-> 0, a |-> 0, done |-> FALSE, wake |-> 0,
   k |-> 0, random |-> 0, err |-> << >>, why |-> "", trace |-> NoTrace]

(***************************************************************************)
(* The seed as the command line gives it.  commander passes the value of   *)
(* -s <number> as the text typed (the option has no parser), or the text   *)
(* of the environment variable SEED is taken, and loadTestCommand hands it *)
(* to loadTest as it is: in  mulberry32(seed + id)  the  +  appends the id *)
(* to the text, and  a |= 0  in mulberry32 turns the text into an integer: *)
(* ToInt32(Number(text)), which is 0 for a text that is no number.         *)
(***************************************************************************)
DigitChars == << "0", "1", "2", "3", "4", "5", "6", "7", "8", "9" >>

IsDigit(c) == \E n \in 1 .. Len(DigitChars) : DigitChars[n] = c

DigitValue(c) == (CHOOSE n \in 1 .. Len(DigitChars) : DigitChars[n] = c) - 1

\* String(n) for a natural number n
RECURSIVE ToText(_)
ToText(n) ==
  IF n < 10 THEN << DigitChars[n + 1] >>
  ELSE Append(ToText(n \div 10), DigitChars[(n % 10) + 1])

\* the value of a text of digits, 0 for the empty text
RECURSIVE DigitsValue(_)
DigitsValue(text) ==
  IF text = << >> THEN 0
  ELSE 10 * DigitsValue(SubSeq(text, 1, Len(text) - 1)) + DigitValue(text[Len(text)])

\* text | 0: Number(text) cut to an integer of RngBits bits.  The texts are
\* made of digits, "." and letters: digits with at most one "." are a
\* number, of which the part before the "." remains; any other text is NaN,
\* and NaN | 0 is 0.
TextToInt(text) ==
  LET dots == { n \in 1 .. Len(text) : text[n] = "." }
      digits == { n \in 1 .. Len(text) : IsDigit(text[n]) }
      whole == IF dots = { } THEN text
               ELSE SubSeq(text, 1, (CHOOSE n \in dots : TRUE) - 1)
  IN  IF digits \cup dots # 1 .. Len(text) \/ Cardinality(dots) > 1 \/ digits = { }
      THEN 0
      ELSE DigitsValue(whole) % RngMod

\* mulberry32(seed + id) for a seed that is a text
SessionSeedOfText(baseSeed, id) == TextToInt(baseSeed \o ToText(id))

\* mulberry32(seed + id) for the seed that  -s  gives as a whole number:
\* the text of the number with the id appended
SessionSeed(baseSeed, id) == SessionSeedOfText(ToText(baseSeed), id)

\* a constructor that seeds the stream with the clock as well
NewUserSeededByClock(id, pageIndex) ==
  [NoUser EXCEPT !.pc = "queued", !.page = pageIndex + 1,
                 !.a = SessionSeed(seed + now, id)]

\* new User(host, id, page, seed, ...): the object, queued
NewUser(id, pageIndex) ==
  [NoUser EXCEPT !.pc = "queued", !.page = pageIndex + 1,
                 !.a = SessionSeed(seed, id)]

\* if (!page.transition) throw
ConstructorThrows(pageIndex) == ~pages[pageIndex + 1].hasTransition

(***************************************************************************)
(* class User: one visitor.  Each operator below is a piece of a method of *)
(* User or of the task callback: it takes the User object s (and the time  *)
(* t at which the piece runs) and yields the object at the next await,     *)
(* s.pc naming the operation awaited.                                      *)
(***************************************************************************)
Fails(op) == stub.op = op

\* the lines the user logs: the record of what it did
Log(s, act, label, n) ==
  [s EXCEPT !.trace = Append(@, [act |-> act, label |-> label, n |-> n])]

Sub(x, y) == IF isNaN(x) \/ isNaN(y) THEN NaN ELSE x - y

\* an error leaves the task callback: the pool reports it with "taskerror"
Throw(s, msg) == [s EXCEPT !.pc = "failed", !.err = msg]

\* a user that reloads its page once more after this._done = true
DoneThenReloads(s, why) == [s EXCEPT !.done = TRUE, !.pc = "reload", !.why = why]

\* this._done = true; the while loop of simulateUserBehavior ends and the
\* task callback goes on to  await page.close().  why records which line
\* ended the visit: "deadline", "exit", "noTransition" or "navigation".
Done(s, why) == [s EXCEPT !.done = TRUE, !.pc = "close", !.why = why]

\* User._pages.find((page) => page.id === id): the index in pages, 0 if none
RECURSIVE FindPage(_, _, _)
FindPage(field, value, k) ==
  IF k > Len(pages) THEN 0
  ELSE IF pages[k][field] = value THEN k
  ELSE FindPage(field, value, k + 1)

\* _waitOnPage: the two draws of randomBoxMuller, then  await sleep(...)
waitOnPage(s, t) ==
  LET bm == randomBoxMuller(pages[s.page].avgTimeOnPage, s.a)
      timeOnPage == MaxFive(bm.ms)
  IN  Log([s EXCEPT !.a = bm.a, !.pc = "dwell", !.wake = WakeTime(t, timeOnPage)],
          "dwell", pages[s.page].label, timeOnPage)

\* a comparison that takes a draw equal to the rate for one above it
AtOrAboveRate(level, percent) == level * 100 >= percent * RngMod

\* random > this._page.interactionRate, the draw being level / RngMod and
\* the rate  percent / 100
AboveRate(level, percent) == level * 100 > percent * RngMod

\* _simulateUserInteraction, the loop over the podcasts from index s.k on
RECURSIVE podcastLoop(_, _)
podcastLoop(s, t) ==
  IF s.k >= AudioOn(pages[s.page].label) THEN waitOnPage(s, t)
  ELSE LET r == mulberry32(s.a)
       IN  IF AboveRate(r.t, pages[s.page].interactionRate)
           THEN podcastLoop([s EXCEPT !.a = r.a, !.k = @ + 1], t)
           ELSE [s EXCEPT !.a = r.a, !.pc = "podcastSleep",
                          !.wake = WakeTime(t, 1000)]

\* _simulateUserInteraction, up to its first await
simulateUserInteraction(s, t) ==
  IF UrlIncludes(pages[s.page].label, "videos")
  THEN LET r == mulberry32(s.a)
       IN  IF AboveRate(r.t, pages[s.page].interactionRate)
           THEN waitOnPage([s EXCEPT !.a = r.a], t)
           ELSE [s EXCEPT !.a = r.a, !.pc = "videoSleep",
                          !.wake = WakeTime(t, 1000)]
  ELSE IF UrlIncludes(pages[s.page].label, "podcasts")
  THEN [s EXCEPT !.pc = "findAudio"]
  ELSE waitOnPage(s, t)

\* this._page.interactionRate && this._page.interactionRate > 0
HasInteraction(page) ==
  ~isNaN(page.interactionRate) /\ page.interactionRate > 0

\* _visitPage, up to its first await
visitPage(s, t) ==
  IF DeadlinePassed(t) THEN Done(s, "deadline")
  ELSE IF HasInteraction(pages[s.page]) THEN simulateUserInteraction(s, t)
  ELSE waitOnPage(s, t)

\* a loop that goes on to the dwell without the deadline check of _visitPage
whileLoopWithoutCheck(s, t) ==
  IF s.done THEN [s EXCEPT !.pc = "close"] ELSE waitOnPage(s, t)

\* while (!this._done) await this._visitPage(page)
whileLoop(s, t) ==
  IF s.done THEN [s EXCEPT !.pc = "close"] ELSE visitPage(s, t)

\* _calculateNextAction, the loop over the following pages from index s.k
\* on, s.random being the remainder (times RngMod); then
\* _navigateToRandomOtherPage up to  await page.$$("a")
RECURSIVE followingLoop(_)
followingLoop(s) ==
  LET followingPages == pages[s.page].followingPages
  IN  IF s.k >= Len(followingPages) THEN [s EXCEPT !.pc = "findLinks"]
      ELSE LET followingPage == followingPages[s.k + 1]
               random == Sub(s.random, Mul(followingPage.navigations, RngMod))
               s1 == [s EXCEPT !.random = random]
           IN  IF Negative(random)
               THEN IF FindPage("id", followingPage.id, 1) = 0
                    THEN followingLoop([s1 EXCEPT !.k = @ + 1])
                    ELSE [s1 EXCEPT !.pc = "findLink"]
               ELSE followingLoop([s1 EXCEPT !.k = @ + 1])

RECURSIVE SumNavigations(_, _)
SumNavigations(followingPages, n) ==
  IF n = 0 THEN 0
  ELSE Add(SumNavigations(followingPages, n - 1), followingPages[n].navigations)

\* a _calculateNextAction that makes its draw before it looks for the
\* transition data of the page
calculateNextActionDrawsFirst(s, t) ==
  LET page == pages[s.page]
      totalActions ==
        Add(Add(Add(page.exits, page.loops), page.otherNavigations),
            SumNavigations(page.followingPages, Len(page.followingPages)))
      r == mulberry32(s.a)
      random0 == Mul(r.t, totalActions)
      random1 == Sub(random0, Mul(page.exits, RngMod))
      random2 == Sub(random1, Mul(page.loops, RngMod))
      s1 == [s EXCEPT !.a = r.a]
  IN  IF DeadlinePassed(t) THEN Done(s, "deadline")
      ELSE IF ~page.hasTransition THEN Done(s1, "noTransition")
      ELSE IF Negative(random1) THEN Done(Log(s1, "exit", page.label, 0), "exit")
      ELSE IF Negative(random2)
      THEN Log([s1 EXCEPT !.pc = "reload"], "loop", page.label, 0)
      ELSE followingLoop([s1 EXCEPT !.random = random2, !.k = 0])

\* _calculateNextAction, up to its first await
calculateNextAction(s, t) ==
  LET page == pages[s.page]
      totalActions ==
        Add(Add(Add(page.exits, page.loops), page.otherNavigations),
            SumNavigations(page.followingPages, Len(page.followingPages)))
      r == mulberry32(s.a)
      random0 == Mul(r.t, totalActions)
      random1 == Sub(random0, Mul(page.exits, RngMod))
      random2 == Sub(random1, Mul(page.loops, RngMod))
      s1 == [s EXCEPT !.a = r.a]
  IN  IF DeadlinePassed(t) THEN Done(s, "deadline")
      ELSE IF ~page.hasTransition THEN Done(s, "noTransition")
      ELSE IF Negative(random1) THEN Done(Log(s1, "exit", page.label, 0), "exit")
      ELSE IF Negative(random2)
      THEN Log([s1 EXCEPT !.pc = "reload"], "loop", page.label, 0)
      ELSE followingLoop([s1 EXCEPT !.random = random2, !.k = 0])

\* a filter that keeps every link of the page into the site
InternalLinks(page) ==
  SelectSeq(LinksOn(page.label), LAMBDA link : link.internal)

\* the links _navigateToRandomOtherPage keeps
OtherLinks(page) ==
  LET followingPageLinks ==
        { page.followingPages[n].label : n \in 1 .. Len(page.followingPages) }
      Keep(link) ==
        /\ link.internal
        /\ link.label # page.label
        /\ link.label \notin followingPageLinks
  IN  SelectSeq(LinksOn(page.label), Keep)

\* page.$(`a[href="${label}"]`) on the page with label current
LinkTo(current, label) ==
  \E n \in 1 .. Len(LinksOn(current)) :
    LinksOn(current)[n].internal /\ LinksOn(current)[n].label = label

(***************************************************************************)
(* The continuations: what the user does when the awaited operation has    *)
(* completed at time t.                                                    *)
(***************************************************************************)
\* the task callback, from its start to its first await
task(s, t) ==
  IF DeadlinePassed(t) THEN [s EXCEPT !.pc = "closeSkipped", !.why = "skipped"]
  ELSE [s EXCEPT !.pc = "setRequestInterception"]

\* await page.close() of the branch that skips the user
afterCloseSkipped(s, t) ==
  IF Fails("close") THEN Throw(s, stub.msg) ELSE [s EXCEPT !.pc = "skipped"]

\* await page.setRequestInterception(true); then simulateUserBehavior up to
\* await page.goto(...)
afterSetRequestInterception(s, t) ==
  IF Fails("setRequestInterception") THEN Throw(s, stub.msg)
  ELSE Log([s EXCEPT !.pc = "goto"], "open", pages[s.page].label, 0)

afterGoto(s, t) ==
  IF Fails("goto") THEN Throw(s, stub.msg) ELSE whileLoop(s, t)

\* await sleep(1000); then page.$eval("video", play)
afterVideoSleep(s, t) == [s EXCEPT !.pc = "playVideo"]

\* the play has ended; a failure is caught and logged
afterPlayVideo(s, t) ==
  waitOnPage(IF Fails("playVideo") THEN s
             ELSE Log(s, "play", pages[s.page].label, 0), t)

\* const podcasts = await page.$$("audio")
afterFindAudio(s, t) ==
  IF Fails("findAudio") THEN Throw(s, stub.msg)
  ELSE podcastLoop([s EXCEPT !.k = 0], t)

afterPodcastSleep(s, t) == [s EXCEPT !.pc = "playAudio"]

afterPlayAudio(s, t) ==
  podcastLoop([(IF Fails("playAudio") THEN s
                ELSE Log(s, "play", pages[s.page].label, s.k))
               EXCEPT !.k = @ + 1], t)

\* await sleep(timeOnPage * 1000); then _calculateNextAction
afterDwell(s, t) == calculateNextAction(s, t)

\* a reload after which the user leaves the page
afterReloadLeaves(s, t) ==
  IF Fails("reload") THEN Throw(s, stub.msg) ELSE Done(s, "exit")

\* a reload whose error is caught and ignored
afterReloadCaught(s, t) == whileLoop(s, t)

\* await page.reload(...)
afterReload(s, t) ==
  IF Fails("reload") THEN Throw(s, stub.msg) ELSE whileLoop(s, t)

\* _navigateToCommonFollowingPage: const link = await page.$(...)
afterFindLink(s, t) ==
  LET nextPage == pages[FindPage("id", pages[s.page].followingPages[s.k + 1].id, 1)]
  IN  IF ~LinkTo(pages[s.page].label, nextPage.label)
      THEN followingLoop([s EXCEPT !.k = @ + 1])
      ELSE Log([s EXCEPT !.pc = "click"], "navigate", nextPage.label, 0)

\* a navigation that leaves this._page as it was
afterClickStays(s, t) ==
  IF Fails("click") THEN followingLoop([s EXCEPT !.k = @ + 1])
  ELSE whileLoop(s, t)

\* _navigateToCommonFollowingPage: await Promise.all([waitForNavigation, click])
afterClick(s, t) ==
  IF Fails("click") THEN followingLoop([s EXCEPT !.k = @ + 1])
  ELSE whileLoop([s EXCEPT
         !.page = FindPage("id", pages[s.page].followingPages[s.k + 1].id, 1)], t)

\* _navigateToRandomOtherPage: const links = await page.$$("a"), the filter,
\* the draw and the lookup of the page
afterFindLinks(s, t) ==
  LET otherLinks == OtherLinks(pages[s.page])
      r == mulberry32(s.a)
      link == otherLinks[((r.t * Len(otherLinks)) \div RngMod) + 1]
      nextPage == FindPage("label", link.label, 1)
  IN  IF Fails("findLinks") \/ Len(otherLinks) = 0 THEN Done(s, "navigation")
      ELSE IF nextPage = 0 THEN Done([s EXCEPT !.a = r.a], "navigation")
      ELSE Log([s EXCEPT !.a = r.a, !.pc = "clickRandom", !.k = nextPage],
               "navigate random", link.label, 0)

\* a random navigation that sets this._page before the navigation is awaited
afterClickRandomMovesFirst(s, t) ==
  IF Fails("click") THEN Done([s EXCEPT !.page = s.k], "navigation")
  ELSE whileLoop([s EXCEPT !.page = s.k], t)

\* a random navigation whose error leaves the task callback
afterClickRandomThrows(s, t) ==
  IF Fails("click") THEN Throw(s, stub.msg)
  ELSE whileLoop([s EXCEPT !.page = s.k], t)

\* _navigateToRandomOtherPage: await Promise.all([waitForNavigation, click])
afterClickRandom(s, t) ==
  IF Fails("click") THEN Done(s, "navigation")
  ELSE whileLoop([s EXCEPT !.page = s.k], t)

\* the task callback: await page.close(); finishedUsers++
afterClose(s, t) ==
  IF Fails("close") THEN Throw(s, stub.msg) ELSE [s EXCEPT !.pc = "returned"]

(***************************************************************************)
(* The pool (puppeteer-cluster, as loadTest launches it): a queue of jobs, *)
(* at most maxConcurrency of them executing, no retry (retryLimit is left  *)
(* at its default 0), one "taskerror" event per task that throws.          *)
(***************************************************************************)
RetryLimit == 0
willRetry == RetryLimit > 0

Executing(u) ==
  user[u].pc \notin { "none", "queued", "returned", "skipped", "failed" }

Busy == { u \in Ids : Executing(u) }

\* a handler that takes an error with a timeout message for a user that had
\* been counted as skipped before, and moves it to the finished users
taskerrorMovesTimeout(msg, retry, finished, skipped) ==
  IF ~retry
  THEN IF startsWith(msg, Timeout)
       THEN [finishedUsers |-> finished + 1, skippedUsers |-> skipped - 1]
       ELSE [finishedUsers |-> finished, skippedUsers |-> skipped + 1]
  ELSE [finishedUsers |-> finished, skippedUsers |-> skipped]

\* a handler that counts the user at every report, retried or not
taskerrorCountsRetries(msg, retry, finished, skipped) ==
  IF startsWith(msg, Timeout)
  THEN [finishedUsers |-> finished + 1, skippedUsers |-> skipped]
  ELSE [finishedUsers |-> finished, skippedUsers |-> skipped + 1]

\* a handler that counts every error as a skipped user
taskerrorSkipsAll(msg, retry, finished, skipped) ==
  IF ~retry
  THEN [finishedUsers |-> finished, skippedUsers |-> skipped + 1]
  ELSE [finishedUsers |-> finished, skippedUsers |-> skipped]

\* cluster.on("taskerror", ...): the counters after the handler has run
taskerror(msg, retry, finished, skipped) ==
  IF ~retry
  THEN IF startsWith(msg, Timeout)
       THEN [finishedUsers |-> finished + 1, skippedUsers |-> skipped]
       ELSE [finishedUsers |-> finished, skippedUsers |-> skipped + 1]
  ELSE [finishedUsers |-> finished, skippedUsers |-> skipped]

\* the counters after a continuation of a task has left the user as s:
\* finishedUsers++ at the end of the task callback, the handler on a throw
CountersAfter(s) ==
  IF s.pc = "failed"
  THEN taskerror(s.err, willRetry, finishedUsers, skippedUsers)
  ELSE IF s.pc = "returned"
  THEN [finishedUsers |-> finishedUsers + 1, skippedUsers |-> skippedUsers]
  ELSE [finishedUsers |-> finishedUsers, skippedUsers |-> skippedUsers]

\* loadTest stands at an await on a timer or on the pool, so that the
\* continuations of the tasks can run
MainAwaits == opc \in { "sleep", "idle" }

\* a pool in which an error thrown by a task ends loadTest
ContinueOrAbort(u, s) ==
  /\ MainAwaits
  /\ user' = [user EXCEPT ![u] = s]
  /\ finishedUsers' = CountersAfter(s).finishedUsers
  /\ skippedUsers' = CountersAfter(s).skippedUsers
  /\ opc' = IF s.pc = "failed" THEN "done" ELSE opc
  /\ UNCHANGED << config, now, i, randomNumber, lastPageEntryWeightIndex,
                  jobQueue >>

\* a continuation of user u's task runs and leaves the user as s
Continue(u, s) ==
  /\ MainAwaits
  /\ user' = [user EXCEPT ![u] = s]
  /\ finishedUsers' = CountersAfter(s).finishedUsers
  /\ skippedUsers' = CountersAfter(s).skippedUsers
  /\ UNCHANGED << config, now, main, jobQueue >>

(***************************************************************************)
(* Actions.                                                                *)
(***************************************************************************)
Init ==
  /\ pages \in Models
  /\ concurrency \in 1 .. MaxConcurrency
  /\ users \in 0 .. MaxUsers
  /\ seed \in 0 .. MaxSeed
  /\ stub \in Stubs
  /\ now = 0
  /\ opc = "scan"
  /\ i = 0
  /\ finishedUsers = 0
  /\ skippedUsers = 0
  /\ randomNumber = seed % RngMod
  /\ lastPageEntryWeightIndex = Len(pages) - 1
  /\ jobQueue = << >>
  /\ user = [id \in Ids |-> NoUser]

\* the wall clock advances
Tick ==
  /\ now < MaxTime
  /\ now' = now + 1
  /\ UNCHANGED << config, main, counters, jobQueue, user >>

\* while (isNaN(pageEntryWeights[lastPageEntryWeightIndex]))
\*   lastPageEntryWeightIndex--
\* Every index below 0 reads undefined: -1 stands for all of them.
ScanBack ==
  /\ opc = "scan"
  /\ isNaN(At(pageEntryWeights, lastPageEntryWeightIndex))
  /\ lastPageEntryWeightIndex' = Max(lastPageEntryWeightIndex - 1, -1)
  /\ UNCHANGED << config, now, opc, i, randomNumber, counters, jobQueue, user >>

\* the scan ends; the pool is launched and the handlers are set
ScanDone ==
  /\ opc = "scan"
  /\ ~isNaN(At(pageEntryWeights, lastPageEntryWeightIndex))
  /\ opc' = "for"
  /\ UNCHANGED << config, now, i, randomNumber, lastPageEntryWeightIndex,
                  counters, jobQueue, user >>

\* i - finishedUsers - skippedUsers > concurrency
OverCapacity == i - finishedUsers - skippedUsers > concurrency

\* for (...; i < users; ...) ends
LoopEnd ==
  /\ opc = "for"
  /\ ~(i < users)
  /\ opc' = "idle"
  /\ UNCHANGED << config, now, i, randomNumber, lastPageEntryWeightIndex,
                  counters, jobQueue, user >>

\* while (OverCapacity) await sleep(100)
WaitForCapacity ==
  /\ opc = "for"
  /\ i < users
  /\ OverCapacity
  /\ opc' = "sleep"
  /\ UNCHANGED << config, now, i, randomNumber, lastPageEntryWeightIndex,
                  counters, jobQueue, user >>

\* sleep(100) is over: the while condition is evaluated again
Poll ==
  /\ opc = "sleep"
  /\ opc' = IF OverCapacity THEN "sleep" ELSE "for"
  /\ UNCHANGED << config, now, i, randomNumber, lastPageEntryWeightIndex,
                  counters, jobQueue, user >>

\* if (Date.now() > projectedEndTime) break
DeadlineBreak ==
  /\ opc = "for"
  /\ i < users
  /\ ~OverCapacity
  /\ DeadlinePassed(now)
  /\ opc' = "idle"
  /\ UNCHANGED << config, now, i, randomNumber, lastPageEntryWeightIndex,
                  counters, jobQueue, user >>

\* a retry that goes on to the next index instead of repeating this one
SampleRetrySkipsIndex ==
  /\ opc = "for"
  /\ i < users
  /\ ~OverCapacity
  /\ ~DeadlinePassed(now)
  /\ LET sel == SelectStartingPage(randomNumber)
     IN  /\ IF sel.pageIndex = -1 THEN TRUE
            ELSE ConstructorThrows(sel.pageIndex)
         /\ randomNumber' = sel.a
  /\ i' = i + 1
  /\ UNCHANGED << config, now, opc, lastPageEntryWeightIndex,
                  counters, jobQueue, user >>

\* pageIndex === -1, or new User throws:  i--; continue
SampleRetry ==
  /\ opc = "for"
  /\ i < users
  /\ ~OverCapacity
  /\ ~DeadlinePassed(now)
  /\ LET sel == SelectStartingPage(randomNumber)
     IN  /\ IF sel.pageIndex = -1 THEN TRUE
            ELSE ConstructorThrows(sel.pageIndex)
         /\ randomNumber' = sel.a
  /\ UNCHANGED << config, now, opc, i, lastPageEntryWeightIndex,
                  counters, jobQueue, user >>

\* new User(host, i + 1, pages[pageIndex], ...); await cluster.queue(user)
QueueUser ==
  /\ opc = "for"
  /\ i < users
  /\ ~OverCapacity
  /\ ~DeadlinePassed(now)
  /\ LET sel == SelectStartingPage(randomNumber)
     IN  /\ IF sel.pageIndex = -1 THEN FALSE
            ELSE ~ConstructorThrows(sel.pageIndex)
         /\ randomNumber' = sel.a
         /\ user' = [user EXCEPT ![i + 1] = NewUser(i + 1, sel.pageIndex)]
  /\ jobQueue' = Append(jobQueue, i + 1)
  /\ i' = i + 1
  /\ UNCHANGED << config, now, opc, lastPageEntryWeightIndex, counters >>

\* a cluster.idle() that resolves as soon as the queue is empty
ClusterIdleQueueOnly ==
  /\ opc = "idle"
  /\ jobQueue = << >>
  /\ opc' = "close"
  /\ UNCHANGED << config, now, i, randomNumber, lastPageEntryWeightIndex,
                  counters, jobQueue, user >>

\* await cluster.idle(): no job is queued and none executes
ClusterIdle ==
  /\ opc = "idle"
  /\ jobQueue = << >>
  /\ Busy = { }
  /\ opc' = "close"
  /\ UNCHANGED << config, now, i, randomNumber, lastPageEntryWeightIndex,
                  counters, jobQueue, user >>

\* await cluster.close(); the report is logged
ClusterClose ==
  /\ opc = "close"
  /\ opc' = "done"
  /\ UNCHANGED << config, now, i, randomNumber, lastPageEntryWeightIndex,
                  counters, jobQueue, user >>

\* a task callback that counts a user picked up after the deadline as
\* finished
PickUpCountsFinished ==
  /\ MainAwaits
  /\ jobQueue # << >>
  /\ Cardinality(Busy) < concurrency
  /\ LET u == Head(jobQueue)
     IN  /\ user' = [user EXCEPT ![u] = task(user[u], now)]
         /\ finishedUsers' = finishedUsers + (IF DeadlinePassed(now) THEN 1 ELSE 0)
  /\ jobQueue' = Tail(jobQueue)
  /\ UNCHANGED << config, now, main, skippedUsers >>

\* a pool that starts every queued job at once, whatever maxConcurrency is
PickUpUnbounded ==
  /\ MainAwaits
  /\ jobQueue # << >>
  /\ LET u == Head(jobQueue)
     IN  /\ user' = [user EXCEPT ![u] = task(user[u], now)]
         /\ skippedUsers' = skippedUsers + (IF DeadlinePassed(now) THEN 1 ELSE 0)
  /\ jobQueue' = Tail(jobQueue)
  /\ UNCHANGED << config, now, main, finishedUsers >>

\* a worker of the pool takes the next job and calls the task callback
PickUp ==
  /\ MainAwaits
  /\ jobQueue # << >>
  /\ Cardinality(Busy) < concurrency
  /\ LET u == Head(jobQueue)
     IN  /\ user' = [user EXCEPT ![u] = task(user[u], now)]
         /\ skippedUsers' = skippedUsers + (IF DeadlinePassed(now) THEN 1 ELSE 0)
  /\ jobQueue' = Tail(jobQueue)
  /\ UNCHANGED << config, now, main, finishedUsers >>

CloseSkippedDone(u) ==
  /\ user[u].pc = "closeSkipped"
  /\ Continue(u, afterCloseSkipped(user[u], now))

SetRequestInterceptionDone(u) ==
  /\ user[u].pc = "setRequestInterception"
  /\ Continue(u, afterSetRequestInterception(user[u], now))

GotoDone(u) ==
  /\ user[u].pc = "goto"
  /\ Continue(u, afterGoto(user[u], now))

VideoSleepDone(u) ==
  /\ user[u].pc = "videoSleep"
  /\ now >= user[u].wake
  /\ Continue(u, afterVideoSleep(user[u], now))

PlayVideoDone(u) ==
  /\ user[u].pc = "playVideo"
  /\ Continue(u, afterPlayVideo(user[u], now))

FindAudioDone(u) ==
  /\ user[u].pc = "findAudio"
  /\ Continue(u, afterFindAudio(user[u], now))

PodcastSleepDone(u) ==
  /\ user[u].pc = "podcastSleep"
  /\ now >= user[u].wake
  /\ Continue(u, afterPodcastSleep(user[u], now))

PlayAudioDone(u) ==
  /\ user[u].pc = "playAudio"
  /\ Continue(u, afterPlayAudio(user[u], now))

DwellDone(u) ==
  /\ user[u].pc = "dwell"
  /\ now >= user[u].wake
  /\ Continue(u, afterDwell(user[u], now))

ReloadDone(u) ==
  /\ user[u].pc = "reload"
  /\ Continue(u, afterReload(user[u], now))

FindLinkDone(u) ==
  /\ user[u].pc = "findLink"
  /\ Continue(u, afterFindLink(user[u], now))

ClickDone(u) ==
  /\ user[u].pc = "click"
  /\ Continue(u, afterClick(user[u], now))

FindLinksDone(u) ==
  /\ user[u].pc = "findLinks"
  /\ Continue(u, afterFindLinks(user[u], now))

ClickRandomDone(u) ==
  /\ user[u].pc = "clickRandom"
  /\ Continue(u, afterClickRandom(user[u], now))

CloseDone(u) ==
  /\ user[u].pc = "close"
  /\ Continue(u, afterClose(user[u], now))

UserStep(u) ==
  \/ CloseSkippedDone(u)
  \/ SetRequestInterceptionDone(u)
  \/ GotoDone(u)
  \/ VideoSleepDone(u)
  \/ PlayVideoDone(u)
  \/ FindAudioDone(u)
  \/ PodcastSleepDone(u)
  \/ PlayAudioDone(u)
  \/ DwellDone(u)
  \/ ReloadDone(u)
  \/ FindLinkDone(u)
  \/ ClickDone(u)
  \/ FindLinksDone(u)
  \/ ClickRandomDone(u)
  \/ CloseDone(u)

MainStep ==
  \/ ScanBack
  \/ ScanDone
  \/ LoopEnd
  \/ WaitForCapacity
  \/ Poll
  \/ DeadlineBreak
  \/ SampleRetry
  \/ QueueUser
  \/ ClusterIdle
  \/ ClusterClose

Next ==
  \/ Tick
  \/ MainStep
  \/ PickUp
  \/ \E u \in Ids : UserStep(u)

Spec == Init /\ [][Next]_vars

\* the scheduling of the event loop and of the pool: the clock advances, a
\* continuation that can run does run, a free worker takes a queued job
FairSpec ==
  /\ Spec
  /\ WF_vars(Tick)
  /\ WF_vars(MainStep)
  /\ WF_vars(PickUp)
  /\ \A u \in Ids : WF_vars(UserStep(u))

(***************************************************************************)
(* Properties of the admission loop and of the counters.                   *)
(***************************************************************************)
\* the number of users submitted to the pool so far
Admitted == Cardinality({ u \in Ids : user[u].pc # "none" })

Terminated(u) == user[u].pc \in { "returned", "skipped", "failed" }

\* C1: at every state of a run the number of users submitted so far minus
\* finishedUsers minus skippedUsers is at most the configured concurrency.
C1_InFlightAtMostConcurrency ==
  Admitted - finishedUsers - skippedUsers <= concurrency

\* C2, as stated: no user is submitted at a time at or after the deadline.
C2_NoSubmissionAtDeadline ==
  [][Admitted' # Admitted => now < projectedEndTime]_vars

\* C2, amended: no user is submitted at a time after the deadline, and once
\* the queue loop has been left (by its break or by its end) no user is
\* submitted any more, however many of the users are still unadmitted.
C2_NoSubmissionAfterDeadline ==
  [][/\ Admitted' # Admitted => now <= projectedEndTime
     /\ opc \in { "idle", "close", "done" } =>
          /\ opc' \in { "idle", "close", "done" }
          /\ Admitted' = Admitted
          /\ i' = i]_vars

\* the queue loop was left by its break while users were still unadmitted
C2_Witness ==
  /\ opc = "idle"
  /\ now > projectedEndTime
  /\ 0 < i
  /\ i < users
  /\ Admitted = i

\* the page-control operation awaited at a position of the task
OpAt(pc) == IF pc = "clickRandom" THEN "click" ELSE pc

\* user u's task runs one of the deadline checks of User (in _visitPage
\* after a page has been opened, in _calculateNextAction after the dwell)
\* at a time after the deadline
DeadlineCheckFires(u) ==
  /\ now > projectedEndTime
  /\ user'[u] # user[u]
  /\ \/ user[u].pc = "dwell"
     \/ /\ user[u].pc \in { "goto", "reload", "click", "clickRandom" }
        /\ stub.op # OpAt(user[u].pc)

\* a worker picks user u up at a time after the deadline
LatePickUp(u) ==
  /\ now > projectedEndTime
  /\ user[u].pc = "queued"
  /\ user'[u].pc # "queued"

C4_OneOutcomePerUser ==
  /\ finishedUsers + skippedUsers <= Admitted
  /\ opc = "done" => finishedUsers + skippedUsers = Admitted

\* C5: when the pool reports an error of a task (no retry), exactly one
\* counter is incremented, by one: finishedUsers if the message begins with
\* "Timeout", skippedUsers otherwise.
C5_TaskErrorCountsOnce ==
  [][\A u \in Ids :
       (user'[u].pc = "failed" /\ user[u].pc # "failed") =>
         IF /\ Len(user'[u].err) >= 7
            /\ SubSeq(user'[u].err, 1, 7) = << "T", "i", "m", "e", "o", "u", "t" >>
         THEN finishedUsers' = finishedUsers + 1 /\ skippedUsers' = skippedUsers
         ELSE finishedUsers' = finishedUsers /\ skippedUsers' = skippedUsers + 1]_vars

\* a task has thrown an error whose message begins with "Timeout"
C5_Witness ==
  \E u \in Ids :
    /\ user[u].pc = "failed"
    /\ user[u].err = MsgTimeoutHit
    /\ finishedUsers > 0

\* C6: the step in which a task throws changes no other user and nothing of
\* loadTest but the counters: the queue loop stands where it stood and the
\* jobs still queued are still queued.
C6_FailureIsLocal ==
  [][\A u \in Ids :
       (user'[u].pc = "failed" /\ user[u].pc # "failed") =>
         /\ \A v \in Ids \ { u } : user'[v] = user[v]
         /\ UNCHANGED << config, main, jobQueue, now >>]_vars

\* a task has thrown, and a user submitted after it has run to the end of
\* its task
C6_Witness ==
  \E u, v \in Ids :
    /\ u < v
    /\ user[u].pc = "failed"
    /\ user[v].pc = "returned"
    /\ Len(user[v].trace) > 1
    /\ opc = "done"

\* C7: every run of loadTest ends: the pool is drained and closed and the
\* report is logged.
C7_Terminates == <>(opc = "done")

(***************************************************************************)
(* Properties of one user's run.                                           *)
(***************************************************************************)
\* user u begins an action on its page: it opens the start page, plays a
\* video or a podcast, reloads, or clicks a link
BeginsPageAction(u) ==
  /\ user'[u].pc # user[u].pc
  /\ user'[u].pc \in { "goto", "playVideo", "playAudio", "reload", "click",
                       "clickRandom" }

\* C8, as stated: every action on a page is begun at a time not later than
\* the deadline.
C8_NoPageActionAfterDeadline ==
  [][\A u \in Ids : BeginsPageAction(u) => now <= projectedEndTime]_vars

\* C8, amended: after the deadline no visit and no decision is begun (a
\* deadline check of User draws nothing and logs nothing), no reload is
\* begun, and the only actions begun are those an await separates from the
\* last deadline check: the opening of the start page, a play after its
\* sleep, a click after the lookup of its link.
C8_AfterDeadlineOnlyAwaitedActions ==
  [][\A u \in Ids :
       /\ DeadlineCheckFires(u) =>
            /\ user'[u].trace = user[u].trace
            /\ user'[u].a = user[u].a
            /\ ~BeginsPageAction(u)
       /\ (BeginsPageAction(u) /\ now > projectedEndTime) =>
            user[u].pc \in { "setRequestInterception", "videoSleep",
                             "podcastSleep", "findLink", "findLinks" }]_vars

\* after the deadline one user has been stopped by a deadline check while
\* another is playing a video or a podcast
C8_Witness ==
  \E u, v \in Ids :
    /\ now > projectedEndTime
    /\ user[u].why = "deadline"
    /\ Len(user[u].trace) > 1
    /\ user[v].pc \in { "playVideo", "playAudio" }

\* the continuation of a task that stands at s.pc, run at time t
Resume(s, t) ==
  CASE s.pc = "queued" -> task(s, t)
    [] s.pc = "closeSkipped" -> afterCloseSkipped(s, t)
    [] s.pc = "setRequestInterception" -> afterSetRequestInterception(s, t)
    [] s.pc = "goto" -> afterGoto(s, t)
    [] s.pc = "videoSleep" -> afterVideoSleep(s, t)
    [] s.pc = "playVideo" -> afterPlayVideo(s, t)
    [] s.pc = "findAudio" -> afterFindAudio(s, t)
    [] s.pc = "podcastSleep" -> afterPodcastSleep(s, t)
    [] s.pc = "playAudio" -> afterPlayAudio(s, t)
    [] s.pc = "dwell" -> afterDwell(s, t)
    [] s.pc = "reload" -> afterReload(s, t)
    [] s.pc = "findLink" -> afterFindLink(s, t)
    [] s.pc = "click" -> afterClick(s, t)
    [] s.pc = "findLinks" -> afterFindLinks(s, t)
    [] s.pc = "clickRandom" -> afterClickRandom(s, t)
    [] s.pc = "close" -> afterClose(s, t)
    [] OTHER -> s

\* the number of continuations a reference run is followed for
ReplaySteps == 40

\* the run of a task on a clock that stands at 0, so that no deadline check
\* stops it, followed for n continuations
RECURSIVE Replay(_, _)
Replay(s, n) ==
  IF n = 0 \/ s.pc \in { "returned", "skipped", "failed" } THEN s
  ELSE Replay(Resume(s, 0), n - 1)

\* the start page of the n-th user submitted, the entry stream being in
\* state a: the draws that find no page or a page without transition are
\* drawn again
RECURSIVE StartOf(_, _, _)
StartOf(a, n, fuel) ==
  LET sel == SelectStartingPage(a)
      found == IF sel.pageIndex = -1 THEN FALSE
               ELSE ~ConstructorThrows(sel.pageIndex)
  IN  IF fuel = 0 THEN -1
      ELSE IF ~found THEN StartOf(sel.a, n, fuel - 1)
      ELSE IF n = 1 THEN sel.pageIndex
      ELSE StartOf(sel.a, n - 1, fuel - 1)

\* what user id does when no deadline stops it, as a function of the seed,
\* the model and the stub
Reference(id) ==
  Replay(NewUser(id, StartOf(seed % RngMod, id, MaxUsers * RngMod)), ReplaySteps).trace

IsPrefix(s, t) == Len(s) <= Len(t) /\ SubSeq(t, 1, Len(s)) = s

\* C9, as stated: what a user has done when its task returns is a function
\* of the seed, the model and the stub alone.
C9_SameActionsEveryRun ==
  \A u \in Ids : user[u].pc = "returned" => user[u].trace = Reference(u)

\* C9, amended: what a user has done is at every moment a prefix of the
\* one sequence that the seed, the model and the stub determine for its id;
\* where the sequence is cut depends on the clock.
C9_ActionsArePrefixOfReference ==
  \A u \in Ids : user[u].pc # "none" => IsPrefix(user[u].trace, Reference(u))

\* one user has run to the end of its reference sequence, another has been
\* cut short of it by the deadline
C9_Witness ==
  \E u, v \in Ids :
    /\ user[u].pc = "returned"
    /\ user[u].why = "exit"
    /\ user[u].trace = Reference(u)
    /\ user[v].pc = "returned"
    /\ user[v].why = "deadline"
    /\ Len(user[v].trace) > 1
    /\ user[v].trace # Reference(v)

\* the following page user s is about to navigate to
FollowingTarget(s) ==
  pages[FindPage("id", pages[s.page].followingPages[s.k + 1].id, 1)]

\* C10: when the page has no link to the following page chosen, the user
\* goes on to the navigation to a random other page.
C10_LookupFailureFallsBackToRandom ==
  [][\A u \in Ids :
       (/\ user[u].pc = "findLink"
        /\ user'[u] # user[u]
        /\ ~LinkTo(pages[user[u].page].label, FollowingTarget(user[u]).label)) =>
         user'[u].pc = "findLinks"]_vars

(***************************************************************************)
(* _calculateNextAction on its own: one user that has dwelt on a page      *)
(* whose weights are drawn from 0 .. MaxWeight decides with every state of *)
(* its stream.                                                             *)
(***************************************************************************)
MaxWeight == 2

\* the lists of following pages readTransitionsCSV can build for the first
\* page of a site of three pages: it keeps the navigations above 0 only
FollowingLists ==
  { << >> }
  \cup { << FollowingPage(1, "/videos", n) >> : n \in 1 .. MaxWeight }
  \cup { << FollowingPage(1, "/videos", n[1]), FollowingPage(2, "/podcasts", n[2]) >> :
           n \in (1 .. MaxWeight) \X (1 .. MaxWeight) }

DecideInit ==
  /\ \E exits, loops, otherNavigations \in 0 .. MaxWeight :
       \E followingPages \in FollowingLists :
         pages = << Page(0, "/", 5, 1, exits, loops, otherNavigations, followingPages, 0),
                    SitePages[2], SitePages[3] >>
  /\ concurrency = 1
  /\ users = 1
  /\ seed = 0
  /\ stub = NoFailure
  /\ now = 0
  /\ opc = "idle"
  /\ i = 1
  /\ finishedUsers = 0
  /\ skippedUsers = 0
  /\ randomNumber = 0
  /\ lastPageEntryWeightIndex = Len(pages) - 1
  /\ jobQueue = << >>
  /\ \E a \in Levels :
       user = [id \in Ids |->
                 IF id = 1 THEN [NoUser EXCEPT !.pc = "dwell", !.page = 1, !.a = a]
                 ELSE NoUser]

\* the dwell of user 1 is over: _calculateNextAction up to its first await
Decide ==
  /\ user[1].pc = "dwell"
  /\ user' = [user EXCEPT ![1] = calculateNextAction(user[1], now)]
  /\ UNCHANGED << config, now, main, counters, jobQueue >>

DecideSpec == DecideInit /\ [][Decide]_vars

\* the weights of the buckets of a page in their order: exit, loop, the
\* following pages, other navigation
BucketWeights(page) ==
  << page.exits, page.loops >>
  \o [n \in 1 .. Len(page.followingPages) |-> page.followingPages[n].navigations]
  \o << page.otherNavigations >>

RECURSIVE SumTo(_, _)
SumTo(weights, n) == IF n = 0 THEN 0 ELSE SumTo(weights, n - 1) + weights[n]

\* the bucket the draw of level t falls in: the first bucket b with
\* x < weights[1] + ... + weights[b], where x = (t / RngMod) * total
BucketOf(weights, t) ==
  LET total == SumTo(weights, Len(weights))
      In(b) == t * total < SumTo(weights, b) * RngMod
  IN  CHOOSE b \in 1 .. Len(weights) : In(b) /\ \A c \in 1 .. (b - 1) : ~In(c)

\* the bucket user s has taken after its decision
BucketTaken(s) ==
  CASE s.why = "exit" -> 1
    [] s.pc = "reload" -> 2
    [] s.pc = "findLink" -> 3 + s.k
    [] s.pc = "findLinks" -> 3 + Len(pages[s.page].followingPages)
    [] OTHER -> 0

\* C11: on a page whose weights have a positive sum the decision takes the
\* first bucket, in the order exit, loop, following pages, other, whose
\* cumulative weight exceeds the draw times the sum; a bucket of weight 0 is
\* never taken.
C11_DecisionIsCategorical ==
  LET weights == BucketWeights(pages[1])
      s == user[1]
  IN  (s.pc # "dwell" /\ SumTo(weights, Len(weights)) > 0) =>
        /\ BucketTaken(s) = BucketOf(weights, RngTable[s.a])
        /\ weights[BucketTaken(s)] > 0

\* the second of two following pages has been chosen on a page that has
\* exits, loops and other navigations as well
C11_Witness ==
  /\ user[1].pc = "findLink"
  /\ user[1].k = 1
  /\ pages[1].exits > 0
  /\ pages[1].loops > 0
  /\ pages[1].otherNavigations > 0

(***************************************************************************)
(* The selection of the start page on its own: loadTest with one user, on  *)
(* every model of at most MaxPages pages whose entry cells are 0 ..        *)
(* MaxWeight or missing, with every state of the entry stream, the clock   *)
(* standing still.                                                         *)
(***************************************************************************)
MaxPages == 3

Labels == << "/", "/videos", "/podcasts", "/about" >>

\* the pages readPageCSV builds from rows whose entries cells are es
EntryPages(es) ==
  [k \in 1 .. Len(es) |-> Page(k - 1, Labels[((k - 1) % Len(Labels)) + 1], 5, es[k], 1, 0, 0, << >>, 0)]

EntryCells == (0 .. MaxWeight) \cup { NaN }

EntryModels ==
  UNION { { EntryPages(es) : es \in [1 .. n -> EntryCells] } : n \in 0 .. MaxPages }

SampleInit ==
  /\ pages \in EntryModels
  /\ concurrency = 1
  /\ users = 1
  /\ seed \in Levels
  /\ stub = NoFailure
  /\ now = 0
  /\ opc = "scan"
  /\ i = 0
  /\ finishedUsers = 0
  /\ skippedUsers = 0
  /\ randomNumber = seed % RngMod
  /\ lastPageEntryWeightIndex = Len(pages) - 1
  /\ jobQueue = << >>
  /\ user = [id \in Ids |-> NoUser]

SampleNext ==
  \/ ScanBack
  \/ ScanDone
  \/ SampleRetry
  \/ QueueUser

SampleSpec == SampleInit /\ [][SampleNext]_vars

\* every entry weight of the model is a number that is not negative, and
\* their sum is positive
ValidEntries ==
  /\ \A k \in 1 .. Len(pages) : ~isNaN(pages[k].entries) /\ pages[k].entries >= 0
  /\ \E k \in 1 .. Len(pages) : pages[k].entries > 0

\* entries of the first n pages, summed
RECURSIVE EntriesTo(_)
EntriesTo(n) == IF n = 0 THEN 0 ELSE EntriesTo(n - 1) + pages[n].entries

\* C12: with valid entry weights the start page of the user is the page P
\* with  cumulative(P - 1) <= u * total < cumulative(P)  for the draw u that
\* selected it, an interval of length entries(P); so a page with entries 0
\* is never the start page.
C12_StartPageIsInverseCdf ==
  (ValidEntries /\ user[1].pc = "queued") =>
    LET P == user[1].page
        x == RngTable[randomNumber] * EntriesTo(Len(pages))
    IN  /\ EntriesTo(P - 1) * RngMod <= x
        /\ x < EntriesTo(P) * RngMod
        /\ pages[P].entries > 0

\* the third page is the start page, the second having entries 0
C12_Witness ==
  /\ ValidEntries
  /\ user[1].pc = "queued"
  /\ user[1].page = 3
  /\ pages[2].entries = 0
  /\ pages[1].entries > 0

\* the event loop runs loadTest on
FairSampleSpec == SampleSpec /\ WF_vars(SampleNext)

\* the model has pages, and each has an entry weight that is 0 or not a
\* number
NoUsableEntry ==
  /\ Len(pages) > 0
  /\ \A k \in 1 .. Len(pages) : isNaN(pages[k].entries) \/ pages[k].entries = 0

\* C13: on a model without a usable entry weight the selection of the start
\* page is reached and finds no page, and no user is ever submitted.
C13_SamplingFails ==
  NoUsableEntry =>
    /\ <>(opc = "for" /\ SelectStartingPage(randomNumber).pageIndex = -1)
    /\ [](Admitted = 0)

\* the navigation to a random other page of user u is about to fail: the
\* page has no eligible link, the link leads to a page the model does not
\* know, or the page control fails
RandomNavigationFails(u) ==
  \/ /\ user[u].pc = "findLinks"
     /\ LET otherLinks == OtherLinks(pages[user[u].page])
            r == mulberry32(user[u].a)
            link == otherLinks[((r.t * Len(otherLinks)) \div RngMod) + 1]
        IN  \/ Fails("findLinks")
            \/ Len(otherLinks) = 0
            \/ FindPage("label", link.label, 1) = 0
  \/ /\ user[u].pc = "clickRandom"
     /\ Fails("click")

\* the step of user u on which its task callback returns or throws
Reports(u) == user[u].pc = "close" /\ user'[u].pc # "close"

MaxMean == 2

ScenarioPages(meanA, meanB) ==
  << Page(0, "/", meanA, 100, 0, 0, 0, << FollowingPage(1, "/podcasts", 100) >>, 0),
     Page(1, "/podcasts", meanB, 0, 100, 0, 0, << >>, 0) >>

ScenarioInit ==
  /\ pages \in { ScenarioPages(mean[1], mean[2]) : mean \in (0 .. MaxMean) \X (0 .. MaxMean) }
  /\ concurrency = 1
  /\ users = 1
  /\ seed \in Levels
  /\ stub = NoFailure
  /\ now = 0
  /\ opc = "scan"
  /\ i = 0
  /\ finishedUsers = 0
  /\ skippedUsers = 0
  /\ randomNumber = seed % RngMod
  /\ lastPageEntryWeightIndex = Len(pages) - 1
  /\ jobQueue = << >>
  /\ user = [id \in Ids |-> NoUser]

\* the steps of loadTest, of the pool and of the user that this run can take
ScenarioNext ==
  \/ Tick
  \/ ScanDone
  \/ LoopEnd
  \/ DeadlineBreak
  \/ QueueUser
  \/ ClusterIdle
  \/ ClusterClose
  \/ PickUp
  \/ \E u \in Ids :
       \/ CloseSkippedDone(u)
       \/ SetRequestInterceptionDone(u)
       \/ GotoDone(u)
       \/ DwellDone(u)
       \/ FindLinkDone(u)
       \/ ClickDone(u)
       \/ CloseDone(u)

ScenarioSpec == ScenarioInit /\ [][ScenarioNext]_vars

\* what the user has logged, without the durations
Acts(trace) == [n \in 1 .. Len(trace) |-> << trace[n].act, trace[n].label >>]

ScenarioActs ==
  << << "open", "/" >>, << "dwell", "/" >>, << "navigate", "/podcasts" >>,
     << "dwell", "/podcasts" >>, << "exit", "/podcasts" >> >>

\* C16: on the two-page model the user starts on "/", goes to "/podcasts"
\* and leaves there, whatever the seed; a run that has ended before the end
\* of the test has counted this user as finished and none as skipped.
C16_ScenarioResult ==
  /\ user[1].pc = "queued" => pages[user[1].page].label = "/"
  /\ IsPrefix(Acts(user[1].trace), ScenarioActs)
  /\ opc = "done" /\ ~DeadlinePassed(now) =>
       /\ Acts(user[1].trace) = ScenarioActs
       /\ user[1].why = "exit"
       /\ finishedUsers = 1
       /\ skippedUsers = 0

\* the run has reported before the end of the test
C16_Witness ==
  /\ opc = "done"
  /\ ~DeadlinePassed(now)
  /\ pages = ScenarioPages(MaxMean, 1)
  /\ user[1].pc = "returned"
  /\ finishedUsers = 1

(***************************************************************************)
(* A user whose page has just been opened, for every mean a cell of        *)
(* pages.csv can give (Number of a missing cell is NaN) and every state of *)
(* its stream: the next step is _waitOnPage.                               *)
(***************************************************************************)
Means == (0 .. 2 * MaxMean + 1) \cup { NaN }

DwellInit ==
  /\ pages \in { << Page(0, "/", mean, 1, 1, 0, 0, << >>, 0) >> : mean \in Means }
  /\ concurrency = 1
  /\ users = 1
  /\ seed = 0
  /\ stub = NoFailure
  /\ now = 0
  /\ opc = "idle"
  /\ i = 1
  /\ finishedUsers = 0
  /\ skippedUsers = 0
  /\ randomNumber = 0
  /\ lastPageEntryWeightIndex = Len(pages) - 1
  /\ jobQueue = << >>
  /\ user \in { [id \in Ids |-> IF id = 1
                                THEN [NoUser EXCEPT !.pc = "goto", !.page = 1, !.a = a]
                                ELSE NoUser] : a \in Levels }

DwellNext == Tick \/ \E u \in Ids : GotoDone(u)

DwellSpec == DwellInit /\ [][DwellNext]_vars

\* C17: every time a user starts to stay on a page, the time it stays is at
\* least 5 s: the logged time is, and the timer is due no earlier than one
\* tick of 5 s later.
C17_DwellAtLeastFive ==
  [][\A u \in Ids :
       user[u].pc = "goto" /\ user'[u].pc = "dwell" =>
         LET timeOnPage == user'[u].trace[Len(user'[u].trace)].n
         IN  /\ ~isNaN(timeOnPage)
             /\ timeOnPage >= 5000
             /\ user'[u].wake >= Min(MaxTime, now + 1)]_vars

\* the user awaits an operation on the media of its page: the search for
\* the audio elements or the start of a video or of an episode
AtMedia(u) == user[u].pc \in { "findAudio", "playVideo", "playAudio" }

\* C18: whatever an operation on the media of a page answers, the task of
\* the user goes on: it does not throw, and the user goes on to further
\* media of the page or stays on the page.
C18_MediaFailureNeverEndsSession ==
  [][\A u \in Ids :
       AtMedia(u) /\ user'[u] # user[u] =>
         /\ user'[u].pc \in { "podcastSleep", "dwell" }
         /\ counters' = counters]_vars

\* C19: every iteration of the queue loop that queues no user leaves
\* loadTest at an await (the sleep of the capacity wait, or cluster.idle()
\* after the loop), where the continuations of the tasks can run.
C19_EveryWaitYields ==
  [][opc = "for" /\ i < users /\ main' # main /\ i' = i => MainAwaits']_vars

\* the ids of the users that have been queued so far
Submitted == { u \in Ids : user[u].pc # "none" }

\* C20: the users queued so far have the ids 1 .. i with i <= users, each
\* of them was queued once, and an iteration of the queue loop that finds
\* no start page queues nothing and keeps the index.
C20_IdsAreOneToK ==
  /\ i >= 0 /\ i <= users
  /\ Submitted = 1 .. i
  /\ \A m, n \in 1 .. Len(jobQueue) : jobQueue[m] = jobQueue[n] => m = n
  /\ { jobQueue[n] : n \in 1 .. Len(jobQueue) } = { u \in Ids : user[u].pc = "queued" }

\* the selection of the start page of the first user has failed at least
\* once: the index is still 0 and no user has been queued
C20_Witness ==
  /\ opc = "for"
  /\ users > 0
  /\ i = 0
  /\ randomNumber # seed % RngMod
  /\ Submitted = { }
  /\ jobQueue = << >>

\* the page operation user u awaits fails with an error whose message does
\* not start with "Timeout": the first page.goto or a page.reload
OpenOrReloadFails(u) ==
  /\ \/ user[u].pc = "goto" /\ Fails("goto")
     \/ user[u].pc = "reload" /\ Fails("reload")
  /\ ~startsWith(stub.msg, Timeout)

\* C21: when page.goto of the start page or page.reload fails with an error
\* that is no timeout, the task of the user throws: the user is counted in
\* skippedUsers once, not in finishedUsers, and does nothing afterwards.
C21_OpenOrReloadFailureSkips ==
  [][\A u \in Ids :
       /\ OpenOrReloadFails(u) /\ user'[u] # user[u] =>
            /\ user'[u].pc = "failed"
            /\ user'[u].trace = user[u].trace
            /\ skippedUsers' = skippedUsers + 1
            /\ finishedUsers' = finishedUsers
       /\ user[u].pc = "failed" => user'[u] = user[u]]_vars

\* a user whose reload failed has been counted as skipped
C21_Witness ==
  \E u \in Ids :
    /\ Fails("reload")
    /\ user[u].pc = "failed"
    /\ user[u].err = MsgNet
    /\ skippedUsers > 0
    /\ finishedUsers = 0

\* the navigation of user u to the following page it has selected is about
\* to fail: the page has no link to it, or the click fails
FollowingNavigationFails(u) ==
  \/ /\ user[u].pc = "findLink"
     /\ ~LinkTo(pages[user[u].page].label, FollowingTarget(user[u]).label)
  \/ /\ user[u].pc = "click"
     /\ Fails("click")

\* C22: after a failed navigation to the following page selected, the user
\* attempts no other following page of the list: what it does next is the
\* search for the links to the other pages.
C22_NoOtherFollowingPageAfterFailure ==
  [][\A u \in Ids :
       FollowingNavigationFails(u) /\ user'[u] # user[u] =>
         /\ user'[u].pc \notin { "findLink", "click" }
         /\ user'[u].pc = "findLinks"]_vars

\* entries of the first n pages, summed over the entries that are numbers
RECURSIVE UsableEntriesTo(_)
UsableEntriesTo(n) ==
  IF n = 0 THEN 0 ELSE UsableEntriesTo(n - 1) + OrZero(pages[n].entries)

\* C23: whatever entries cells are missing, the start page of the user is
\* a page P whose entry weight is a positive number, and the draw u that
\* selected it has  cumulative(P - 1) <= u * total < cumulative(P), the sums
\* being taken over the entry weights that are numbers.
C23_InvalidEntryCountsAsZero ==
  user[1].pc = "queued" =>
    LET P == user[1].page
        x == RngTable[randomNumber] * UsableEntriesTo(Len(pages))
    IN  /\ ~isNaN(pages[P].entries)
        /\ pages[P].entries > 0
        /\ UsableEntriesTo(P - 1) * RngMod <= x
        /\ x < UsableEntriesTo(P) * RngMod

(***************************************************************************)
(* _simulateUserInteraction on its own: a new user whose start page has    *)
(* just been opened, on a page without media, a page with a video, a page  *)
(* with two podcast episodes and a podcast page without episodes, for      *)
(* every interaction rate of Rates and every seed.  A page control whose   *)
(* page.$eval("video", ...) rejects is a page without a video element.     *)
(***************************************************************************)
Rates == { 0, 50, 75, 100, NaN }

MediaLabels == { "/", "/videos", "/podcasts", "/podcasts/new" }

InteractInit ==
  /\ pages \in { << Page(0, label, 0, 1, 1, 0, 0, << >>, rate) >> : label \in MediaLabels, rate \in Rates }
  /\ concurrency = 1
  /\ users = 1
  /\ seed \in Levels
  /\ stub \in { NoFailure, Failure("playVideo", MsgNet), Failure("playAudio", MsgNet) }
  /\ now = 0
  /\ opc = "idle"
  /\ i = 1
  /\ finishedUsers = 0
  /\ skippedUsers = 0
  /\ randomNumber = seed % RngMod
  /\ lastPageEntryWeightIndex = Len(pages) - 1
  /\ jobQueue = << >>
  /\ user = [id \in Ids |-> IF id = 1 THEN [NewUser(1, 0) EXCEPT !.pc = "goto"] ELSE NoUser]

InteractNext ==
  \/ Tick
  \/ \E u \in Ids :
       \/ GotoDone(u)
       \/ VideoSleepDone(u)
       \/ PlayVideoDone(u)
       \/ FindAudioDone(u)
       \/ PodcastSleepDone(u)
       \/ PlayAudioDone(u)

InteractSpec == InteractInit /\ [][InteractNext]_vars

\* the state of a stream n draws after state a, and the n-th draw from a
RECURSIVE StreamAfter(_, _)
StreamAfter(a, n) == IF n = 0 THEN a ELSE RngAdvance(StreamAfter(a, n - 1))

NthDraw(a, n) == RngTable[StreamAfter(a, n)]

\* the draw is at most the rate
WithinRate(level, percent) == level * 100 <= percent * RngMod

\* the media elements the page control finds on the page of user 1
MediaFound ==
  LET label == pages[1].label
  IN  IF UrlIncludes(label, "videos")
      THEN IF Fails("playVideo") THEN 0 ELSE 1
      ELSE IF UrlIncludes(label, "podcasts") THEN AudioOn(label)
      ELSE 0

\* the draws _simulateUserInteraction makes on the page of user 1
MediaDraws ==
  LET label == pages[1].label
  IN  IF ~HasInteraction(pages[1]) THEN 0
      ELSE IF UrlIncludes(label, "videos") THEN 1
      ELSE IF UrlIncludes(label, "podcasts") THEN AudioOn(label)
      ELSE 0

\* the state of the stream of user 1 when it starts to stay on its page
\* after n draws for the media: _waitOnPage has drawn from it since
StreamAtDwell(n) ==
  randomBoxMuller(pages[1].avgTimeOnPage, StreamAfter(SessionSeed(seed, 1), n)).a

\* C24 as stated: the user makes one draw for each media element found on
\* the page, and none when none is found.
C24_OneDrawPerElementFound ==
  (HasInteraction(pages[1]) /\ user[1].pc = "dwell") =>
    user[1].a = StreamAtDwell(MediaFound)

\* the "play" lines user 1 has logged, as the indices of the elements
Played ==
  LET plays == SelectSeq(user[1].trace, LAMBDA e : e.act = "play")
  IN  { plays[n].n : n \in 1 .. Len(plays) }

\* C24: on a page whose url includes "podcasts" the user makes one draw for
\* each audio element found, in the order of the elements, and none when
\* none is found; on a page whose url includes "videos" it makes one draw
\* before it looks for the video, whether the page has one or not; on any
\* other page it makes none.  It starts element e exactly when the draw
\* made for e is at most the interaction rate.
C24_DrawsAndActivations ==
  LET a0 == SessionSeed(seed, 1)
      rate == pages[1].interactionRate
      s == user[1]
  IN  /\ s.pc \in { "videoSleep", "playVideo" } =>
           /\ s.a = StreamAfter(a0, 1)
           /\ WithinRate(NthDraw(a0, 1), rate)
      /\ s.pc \in { "podcastSleep", "playAudio" } =>
           /\ s.a = StreamAfter(a0, s.k + 1)
           /\ WithinRate(NthDraw(a0, s.k + 1), rate)
           /\ s.k < AudioOn(pages[1].label)
      /\ s.pc = "dwell" =>
           /\ s.a = StreamAtDwell(MediaDraws)
           /\ Played =
                IF Fails(IF UrlIncludes(pages[1].label, "videos")
                         THEN "playVideo" ELSE "playAudio") THEN { }
                ELSE { e \in 0 .. MediaDraws - 1 : WithinRate(NthDraw(a0, e + 1), rate) }

\* on the page with two episodes the draw for the first was above the rate
\* and the draw for the second was not: only the second has been played
C24_Witness ==
  /\ pages[1].label = "/podcasts"
  /\ user[1].pc = "dwell"
  /\ Played = { 1 }
  /\ ~WithinRate(NthDraw(SessionSeed(seed, 1), 1), pages[1].interactionRate)

\* the labels of the following pages of a page
FollowingLabels(page) ==
  { page.followingPages[n].label : n \in 1 .. Len(page.followingPages) }

\* C25: when the click of a navigation to a random other page has
\* succeeded, the page the user is on afterwards has neither the label of
\* the page it left nor the label of one of that page's following pages.
C25_RandomNavigationLeavesToOtherPage ==
  [][\A u \in Ids :
       (user[u].pc = "clickRandom" /\ ~Fails("click") /\ user'[u] # user[u]) =>
         LET P == pages[user[u].page]
             Q == pages[user'[u].page]
         IN  /\ Q.label # P.label
             /\ Q.label \notin FollowingLabels(P)]_vars

\* a user stays on the page a random navigation has taken it to
C25_Witness ==
  \E u \in Ids :
    LET trace == user[u].trace
        n == Len(trace)
    IN  /\ n >= 2
        /\ user[u].pc = "dwell"
        /\ trace[n - 1].act = "navigate random"
        /\ trace[n].act = "dwell"
        /\ trace[n].label = trace[n - 1].label
        /\ pages[user[u].page].label = trace[n].label

\* C26: when the reload of a loop has succeeded, the user is on the page it
\* was on and goes on to visit it again: it stops if the end of the test
\* has passed, and otherwise interacts with the page or stays on it.
C26_LoopStaysOnPage ==
  [][\A u \in Ids :
       (user[u].pc = "reload" /\ ~Fails("reload") /\ user'[u] # user[u]) =>
         /\ user'[u].page = user[u].page
         /\ counters' = counters
         /\ IF DeadlinePassed(now)
            THEN user'[u].pc = "close" /\ user'[u].why = "deadline"
            ELSE /\ ~user'[u].done
                 /\ user'[u].pc \in { "videoSleep", "findAudio", "dwell" }
                 /\ user'[u].pc = "dwell" =>
                      LET trace == user'[u].trace
                      IN  trace[Len(trace)].label = pages[user[u].page].label]_vars

\* a user stays again on the page it has reloaded
C26_Witness ==
  \E u \in Ids :
    LET trace == user[u].trace
        n == Len(trace)
    IN  /\ n >= 3
        /\ user[u].pc = "dwell"
        /\ ~user[u].done
        /\ trace[n - 2].act = "dwell"
        /\ trace[n - 1].act = "loop"
        /\ trace[n].act = "dwell"
        /\ trace[n].label = trace[n - 2].label

\* loadTest is past  await cluster.idle(): it closes the pool or has closed
\* it and logged the report
Released == opc \in { "close", "done" }

\* C27: the pool is closed only when no user is queued or executing; from
\* then on no user takes a step and the counters keep the values that the
\* report, logged after the close, shows.
C27_ReleaseAfterDrain ==
  [][/\ Released' => jobQueue' = << >> /\ Busy' = { }
     /\ Released => /\ user' = user
                    /\ counters' = counters
                    /\ jobQueue' = jobQueue
                    /\ Released']_vars

\* the report is logged after users have finished and been skipped
C27_Witness ==
  /\ opc = "done"
  /\ finishedUsers > 0
  /\ skippedUsers > 0
  /\ Busy = { }

\* C28: in every step finishedUsers and skippedUsers stay as they are or
\* grow by 1, and the index i of the queue loop, the number of users queued
\* that loadTest holds at each of its awaits, does not decrease.
C28_CountersAreMonotone ==
  [][/\ finishedUsers' \in { finishedUsers, finishedUsers + 1 }
     /\ skippedUsers' \in { skippedUsers, skippedUsers + 1 }
     /\ i' >= i]_vars

\* loadTest waits for capacity with two users queued, one of which has
\* been counted already
C28_Witness ==
  /\ opc = "sleep"
  /\ i >= 2
  /\ finishedUsers + skippedUsers >= 1

MaxSeedLen == 2

SeedChars == { "0", "1", "7", ".", "s" }

SeedTexts == UNION { [1 .. n -> SeedChars] : n \in 1 .. MaxSeedLen }

SeedInit ==
  /\ pages = SitePages
  /\ concurrency = MaxUsers
  /\ users \in 1 .. MaxUsers
  /\ seed \in SeedTexts
  /\ stub = NoFailure
  /\ now = 0
  /\ opc = "for"
  /\ i = 0
  /\ finishedUsers = 0
  /\ skippedUsers = 0
  /\ randomNumber = TextToInt(seed)
  /\ lastPageEntryWeightIndex = Len(pages) - 1
  /\ jobQueue = << >>
  /\ user = [id \in Ids |-> NoUser]

\* new User(host, i + 1, pages[pageIndex], seed, ...) with the seed of the
\* command line; await cluster.queue(user)
QueueUserOfCommand ==
  /\ opc = "for"
  /\ i < users
  /\ ~OverCapacity
  /\ LET sel == SelectStartingPage(randomNumber)
     IN  /\ sel.pageIndex # -1
         /\ randomNumber' = sel.a
         /\ user' = [user EXCEPT ![i + 1] =
                       [NoUser EXCEPT !.pc = "queued", !.page = sel.pageIndex + 1,
                                      !.a = SessionSeedOfText(seed, i + 1)]]
  /\ jobQueue' = Append(jobQueue, i + 1)
  /\ i' = i + 1
  /\ UNCHANGED << config, now, opc, lastPageEntryWeightIndex, counters >>

SeedSpec == SeedInit /\ [][QueueUserOfCommand]_vars

\* C29: the stream of each user starts in the state  seed + id, the sum of
\* the seed of the run and the id of the user, and no two users of a run
\* start their streams in the same state.
C29_SessionSeedIsBasePlusId ==
  \A u, v \in Ids :
    (user[u].pc = "queued" /\ user[v].pc = "queued") =>
      /\ user[u].a = (TextToInt(seed) + u) % RngMod
      /\ u # v => user[u].a # user[v].a

(***************************************************************************)
(* Loading the model: readPageCSV, then readTransitionsCSV.  A cell of a   *)
(* file is given as the number Number(cell) makes of it, NaN for a cell    *)
(* that is not a number; the id cells of pages.csv are whole numbers.  A   *)
(* line of transitions.csv is the id of a page followed by one count for   *)
(* each column, and column n stands for the n-th page of pages.csv.        *)
(***************************************************************************)
MaxFilePages == 2
MaxRows == 2
MaxCells == 3

\* the pages readPageCSV makes of the lines of pages.csv: a line with an id
\* and a label, or the line a trailing line break yields
PageRows ==
  { Page(id, label, 5, 1, 1, 0, 0, << >>, 0) : id \in { 0, 1, 7 }, label \in { "/", "/videos" } }
    \cup { BlankRow }

readPageCSV == UNION { [1 .. n -> PageRows] : n \in 0 .. MaxFilePages }

\* rawRow.split(',').map(Number): the id of the page the line is for and
\* the counts of the line
RawRows ==
  { [id |-> id, navigations |-> cells] :
      id \in { 0, 1, NaN },
      cells \in UNION { [1 .. n -> { -1, 0, 1, NaN }] : n \in 0 .. MaxCells } }

\* rows.get(id) ?? []  after  rows.set(row[0], row.slice(1))  for every line
\* in turn: the counts of the last line for the id
RECURSIVE RowsGet(_, _, _)
RowsGet(rawRows, id, n) ==
  IF n = 0 THEN << >>
  ELSE IF rawRows[n].id = id THEN rawRows[n].navigations
  ELSE RowsGet(rawRows, id, n - 1)

\* navigations[i] > 0 && pages[i]
HasCell(ps, navigations, n) ==
  navigations[n] # NaN /\ navigations[n] >= 0 /\ n <= Len(ps)

HasNavigations(ps, navigations, n) ==
  navigations[n] # NaN /\ navigations[n] > 0 /\ n <= Len(ps)

\* the followingPages pushed in the loop over the counts of a line
FollowingPagesOf(ps, navigations) ==
  LET columns == SelectSeq([n \in 1 .. Len(navigations) |-> n],
                           LAMBDA n : HasNavigations(ps, navigations, n))
  IN  [k \in 1 .. Len(columns) |->
         FollowingPage(ps[columns[k]].id, ps[columns[k]].label, navigations[columns[k]])]

readTransitionsCSV(ps, rawRows) ==
  [k \in 1 .. Len(ps) |->
     IF ~ps[k].hasTransition THEN ps[k]
     ELSE [ps[k] EXCEPT !.followingPages =
             FollowingPagesOf(ps, RowsGet(rawRows, ps[k].id, Len(rawRows)))]]

LoadInit ==
  /\ pages = << >>
  /\ concurrency = 1
  /\ users = 1
  /\ seed = 0
  /\ stub = NoFailure
  /\ now = 0
  /\ opc = "readPageCSV"
  /\ i = 0
  /\ finishedUsers = 0
  /\ skippedUsers = 0
  /\ randomNumber = 0
  /\ lastPageEntryWeightIndex = -1
  /\ jobQueue = << >>
  /\ user = [id \in Ids |-> NoUser]

\* const pages = await readPageCSV()
ReadPages ==
  /\ opc = "readPageCSV"
  /\ pages' \in readPageCSV
  /\ opc' = "readTransitionsCSV"
  /\ UNCHANGED << concurrency, users, seed, stub, now, i, counters, randomNumber,
                  lastPageEntryWeightIndex, jobQueue, user >>

\* await readTransitionsCSV(pages), with the lines of transitions.csv
ReadTransitions ==
  /\ opc = "readTransitionsCSV"
  /\ \E rawRows \in UNION { [1 .. n -> RawRows] : n \in 0 .. MaxRows } :
       pages' = readTransitionsCSV(pages, rawRows)
  /\ opc' = "reduce"
  /\ UNCHANGED << concurrency, users, seed, stub, now, i, counters, randomNumber,
                  lastPageEntryWeightIndex, jobQueue, user >>

LoadSpec == LoadInit /\ [][ReadPages \/ ReadTransitions]_vars

RetryInit ==
  /\ pages = SitePages
  /\ concurrency = MaxUsers
  /\ users = MaxUsers
  /\ seed = 0
  /\ stub = NoFailure
  /\ now = 0
  /\ opc = "idle"
  /\ i = MaxUsers
  /\ finishedUsers = 0
  /\ skippedUsers = 0
  /\ randomNumber = 0
  /\ lastPageEntryWeightIndex = Len(pages) - 1
  /\ jobQueue = << >>
  /\ user = [id \in Ids |-> [NewUser(id, 0) EXCEPT !.pc = "goto"]]

\* the task of user u throws and the pool emits "taskerror" with the error
\* and with willRetry
Report(u) ==
  /\ user[u].pc = "goto"
  /\ \E msg \in Messages, retry \in BOOLEAN :
       /\ user' = [user EXCEPT ![u] =
                     IF retry THEN [@ EXCEPT !.pc = "queued", !.err = msg]
                     ELSE Throw(@, msg)]
       /\ jobQueue' = IF retry THEN Append(jobQueue, u) ELSE jobQueue
       /\ finishedUsers' = taskerror(msg, retry, finishedUsers, skippedUsers).finishedUsers
       /\ skippedUsers' = taskerror(msg, retry, finishedUsers, skippedUsers).skippedUsers
  /\ UNCHANGED << config, now, main >>

\* the pool runs the job at the head of its queue once more
RunAgain ==
  /\ jobQueue # << >>
  /\ user' = [user EXCEPT ![Head(jobQueue)] = [@ EXCEPT !.pc = "goto"]]
  /\ jobQueue' = Tail(jobQueue)
  /\ UNCHANGED << config, now, main, counters >>

RetrySpec == RetryInit /\ [][RunAgain \/ \E u \in Ids : Report(u)]_vars

\* C31: a report of the pool with willRetry (the job of the user is back in
\* the queue) leaves finishedUsers and skippedUsers as they are; a report
\* without willRetry adds one to exactly one of the two.
C31_RetriedErrorIsNotCounted ==
  [][\A u \in Ids :
       /\ (user[u].pc = "goto" /\ user'[u].pc = "queued") =>
            (finishedUsers' = finishedUsers /\ skippedUsers' = skippedUsers)
       /\ (user[u].pc = "goto" /\ user'[u].pc = "failed") =>
            finishedUsers' + skippedUsers' = finishedUsers + skippedUsers + 1]_vars

\* one user was reported with willRetry and waits in the queue, another was
\* given up, and only that one has been counted
C31_Witness ==
  /\ \E u \in Ids : user[u].pc = "queued" /\ user[u].err # << >>
  /\ \E u \in Ids : user[u].pc = "failed"
  /\ finishedUsers + skippedUsers = Cardinality({ u \in Ids : user[u].pc = "failed" })

\* the page the navigation awaited by user u leads to
NavigationTarget(u) ==
  IF user[u].pc = "click"
  THEN FindPage("id", pages[user[u].page].followingPages[user[u].k + 1].id, 1)
  ELSE user[u].k

\* user u awaits the navigation to a following page or to a random other page
AwaitsNavigation(u) == user[u].pc \in { "click", "clickRandom" }

\* C32: this._page of a user changes only in the step in which an awaited
\* navigation, to a following page or to a random other page, completes
\* without an error, and it is then the page the navigation leads to; a
\* navigation that fails and every other step of the user leave it as it is.
C32_PageChangesOnlyOnNavigation ==
  [][\A u \in Ids :
       /\ (user[u].pc # "none" /\ user'[u].page # user[u].page) =>
            (AwaitsNavigation(u) /\ ~Fails("click"))
       /\ (AwaitsNavigation(u) /\ ~Fails("click") /\ user'[u] # user[u]) =>
            user'[u].page = NavigationTarget(u)]_vars

\* a user that is now on another page than the one it opened
C32_Witness ==
  \E u \in Ids :
    /\ Len(user[u].trace) >= 2
    /\ user[u].trace[1].act = "open"
    /\ user[u].trace[1].label # pages[user[u].page].label

\* the visit of user u has ended: this._done is set (the user chose to leave,
\* saw the end of the test or failed to navigate at random), or an error has
\* left its task
VisitEnded(u) == user[u].done \/ user[u].pc = "failed"

\* all that is left of the task of the user: page.close() of the task
\* callback and its return, or the report of the error
AfterVisit == { "close", "returned", "failed" }

\* C33: once the visit of a user has ended, it stays ended: the user awaits
\* no further operation on its page, makes no further draw from its stream,
\* logs no further action and stays on its page; only the page.close() of
\* the task callback follows.
C33_TerminatedIsAbsorbing ==
  [][\A u \in Ids :
       VisitEnded(u) =>
         /\ user[u].pc \in AfterVisit
         /\ user'[u].pc \in AfterVisit
         /\ user'[u].done = user[u].done
         /\ user'[u].a = user[u].a
         /\ user'[u].trace = user[u].trace
         /\ user'[u].page = user[u].page]_vars

\* a user has left its page and its task has returned, while another user
\* is still visiting
C33_Witness ==
  \E u, v \in Ids :
    /\ user[u].done
    /\ user[u].why = "exit"
    /\ user[u].pc = "returned"
    /\ Executing(v)
    /\ ~user[v].done
    /\ Len(user[v].trace) > Len(user[u].trace)

\* every weight of the buckets of the page is 0
NoWeight(page) == \A n \in 1 .. Len(BucketWeights(page)) : BucketWeights(page)[n] = 0

\* C34: on a page whose weights are all 0 (exits, loops, other navigations
\* and the navigations of every following page) _calculateNextAction
\* neither leaves the page nor reloads it nor goes to a following page: it
\* makes its draw and goes on to _navigateToRandomOtherPage.
C34_NoWeightTakesRandomNavigation ==
  [][(NoWeight(pages[1]) /\ user'[1] # user[1]) =>
       /\ user'[1].pc = "findLinks"
       /\ ~user'[1].done
       /\ user'[1].trace = user[1].trace
       /\ user'[1].page = user[1].page
       /\ user'[1].a = RngAdvance(user[1].a)]_vars

\* the user has decided on a page without any weight and looks for the links
\* of the page
C34_Witness ==
  /\ NoWeight(pages[1])
  /\ pages[1].followingPages = << >>
  /\ user[1].pc = "findLinks"

(***************************************************************************)
(* A site with a page without transition data.  The Page type allows it    *)
(* (transition is optional); the page is the one the link "/about" of the  *)
(* start page leads to, so that a user reaches it by a navigation to a     *)
(* random other page.                                                      *)
(***************************************************************************)
AboutPage ==
  [Page(3, "/about", 5, 0, 0, 0, 0, << >>, 0) EXCEPT !.hasTransition = FALSE]

NoTransitionInit ==
  /\ pages \in { SitePages \o << AboutPage >>, << AboutPage >> \o SitePages }
  /\ concurrency = MaxUsers
  /\ users \in 1 .. MaxUsers
  /\ seed \in 0 .. MaxSeed
  /\ stub = NoFailure
  /\ now = 0
  /\ opc = "for"
  /\ i = 0
  /\ finishedUsers = 0
  /\ skippedUsers = 0
  /\ randomNumber = seed % RngMod
  /\ lastPageEntryWeightIndex = Len(pages) - 1
  /\ jobQueue = << >>
  /\ user = [id \in Ids |-> NoUser]

NoTransitionSpec ==
  NoTransitionInit
    /\ [][Tick \/ QueueUser \/ LoopEnd \/ PickUp \/ \E u \in Ids : UserStep(u)]_vars

\* a user whose page has no transition data has ended its dwell there
OnPageWithoutTransition(u) ==
  /\ user[u].pc = "dwell"
  /\ ~pages[user[u].page].hasTransition

Batch(k) ==
  SelectSeq([n \in 1 .. users |-> n],
            LAMBDA item : (item - 1) \div concurrency = k)

\* batches.length
BatchCount == (users + concurrency - 1) \div concurrency

\* a promise that resolves as soon as one of the promises of the batch has
\* resolved
PromiseAny(batch) ==
  \E n \in 1 .. Len(batch) : user[batch[n]].pc = "resolved"

\* Promise.all(promises) resolves: every promise of the batch has resolved
PromiseAll(batch) ==
  \A n \in 1 .. Len(batch) : user[batch[n]].pc = "resolved"

\* Promise.all(promises) rejects: a promise of the batch has rejected
PromiseAllRejects(batch) ==
  \E n \in 1 .. Len(batch) : user[batch[n]].pc = "failed"

BatchInit ==
  /\ pages = SitePages
  /\ concurrency \in 1 .. MaxUsers
  /\ users \in 0 .. MaxUsers
  /\ seed = 0
  /\ stub = NoFailure
  /\ now = 0
  /\ opc = "map"
  /\ i = 0
  /\ finishedUsers = 0
  /\ skippedUsers = 0
  /\ randomNumber = 0
  /\ lastPageEntryWeightIndex = Len(pages) - 1
  /\ jobQueue = << >>
  /\ user = [id \in Ids |-> NoUser]

\* const promises = batch.map((item) => callback(item)), for the i-th batch
StartBatch ==
  /\ opc = "map"
  /\ i < BatchCount
  /\ user' = [id \in Ids |->
                IF \E n \in 1 .. Len(Batch(i)) : Batch(i)[n] = id
                THEN [user[id] EXCEPT !.pc = "pending", !.k = @ + 1]
                ELSE user[id]]
  /\ opc' = "all"
  /\ UNCHANGED << config, now, i, randomNumber, lastPageEntryWeightIndex,
                  counters, jobQueue >>

\* the promise of the callback of an item resolves, or rejects
Settle(id) ==
  /\ user[id].pc = "pending"
  /\ \/ user' = [user EXCEPT ![id] = [@ EXCEPT !.pc = "resolved"]]
     \/ user' = [user EXCEPT ![id] = Throw(@, MsgNet)]
  /\ UNCHANGED << config, now, main, counters, jobQueue >>

\* const batchResults = await Promise.all(promises);
\* results.push(...batchResults)
PushResults ==
  /\ opc = "all"
  /\ PromiseAll(Batch(i))
  /\ jobQueue' = jobQueue \o Batch(i)
  /\ opc' = "timeout"
  /\ UNCHANGED << config, now, i, randomNumber, lastPageEntryWeightIndex,
                  counters, user >>

\* await Promise.all(promises) throws: processPromisesBatch rejects
RejectBatch ==
  /\ opc = "all"
  /\ PromiseAllRejects(Batch(i))
  /\ opc' = "rejected"
  /\ UNCHANGED << config, now, i, randomNumber, lastPageEntryWeightIndex,
                  counters, jobQueue, user >>

\* await new Promise((resolve) => setTimeout(resolve, sleep)); i++
SleepDone ==
  /\ opc = "timeout"
  /\ i' = i + 1
  /\ opc' = "map"
  /\ UNCHANGED << config, now, randomNumber, lastPageEntryWeightIndex,
                  counters, jobQueue, user >>

\* the loop over the batches ends: return results
ReturnResults ==
  /\ opc = "map"
  /\ ~(i < BatchCount)
  /\ opc' = "returned"
  /\ UNCHANGED << config, now, i, randomNumber, lastPageEntryWeightIndex,
                  counters, jobQueue, user >>

BatchSpec ==
  BatchInit
    /\ [][StartBatch \/ PushResults \/ RejectBatch \/ SleepDone \/ ReturnResults
            \/ \E id \in Ids : Settle(id)]_vars

\* the batch of an item
BatchOfItem(item) == (item - 1) \div concurrency

\* C36: the callback of an item of a batch is called only when the promise
\* of every item of the batch before has resolved, so at most batchSize
\* promises are pending at any time; the callback is called at most once
\* for an item, and when processPromisesBatch returns it has been called
\* exactly once for every item and results holds the results in the order
\* of the items.
C36_BatchesRunOneAfterAnother ==
  /\ \A a, b \in 1 .. users :
       (user[b].pc # "none" /\ BatchOfItem(b) = BatchOfItem(a) + 1) =>
         user[a].pc = "resolved"
  /\ Cardinality({ id \in 1 .. users : user[id].pc = "pending" }) <= concurrency
  /\ \A id \in Ids : user[id].k <= 1
  /\ opc = "returned" =>
       /\ \A id \in 1 .. users : user[id].k = 1 /\ user[id].pc = "resolved"
       /\ jobQueue = [n \in 1 .. users |-> n]

\* three items in batches of two: processPromisesBatch has returned the
\* three results
C36_Witness ==
  /\ opc = "returned"
  /\ users = 3
  /\ concurrency = 2
  /\ i = 2
  /\ jobQueue = << 1, 2, 3 >>

====
